---------------------------- MODULE Spec2Model ----------------------------
(***************************************************************************)
(* Model of python-azure-devops-inventorizer (src/main.py).                *)
(*                                                                         *)
(* Three pipelines are modelled, each with its own specification:          *)
(*   Spec          create_most_visited_json: the pagination loop and the   *)
(*                 string-splicing of the response bodies into one text    *)
(*   SpecReport    create_most_visited_md: filter, sum, sort, render       *)
(*   SpecArticles  create_new_articles_md: the walk over the git log text  *)
(*                                                                         *)
(* Texts are sequences of one-character strings, so that Python's slices,  *)
(* find, rfind and replace are modelled position by position.              *)
(***************************************************************************)
EXTENDS Integers, Sequences, FiniteSets, TLC

VARIABLES
    \* ---- create_most_visited_json (module globals, src/main.py:16-20)
    continuation_token,         \* value sent as continuationToken
    result_json,                \* the stitched buffer
    current_batch_result_json,  \* the last batch's fragment
    batch_number,
    has_more_results,
    pc,                         \* "loop" | "returned" | "exited" | "crashed"
    exit_status,                \* 0 while running or returned, else the exit code
    json_file,                  \* the cache file: [written, text]
    requests,                   \* history: the continuationToken of each POST
    responses,                  \* history: each answer received
    \* ---- create_most_visited_md
    most_visited_json,          \* the parsed cache file: a sequence of items
    number_of_items,            \* number_of_items_for_most_visited_md
    md_pc,                      \* "start" | "filtered" | "summed" | "rendering" | "written" | "failed"
    page_info_list_without_view_stats,
    page_info_list,
    tmp_count,                  \* the row counter of the rendering loop
    md_pos,                     \* items of page_info_list the loop has passed
    md_rows,                    \* the data rows rendered so far, as records
    md_resulting_md,            \* resulting_md of create_most_visited_md
    md_file,                    \* the report file: [written, text]
    \* ---- create_new_articles_md
    txt_lines,                  \* the lines of the git log text file
    exclude_path,               \* new_articles_md_full_path
    na_pc,                      \* "scanning" | "reading" | "closing" | "written"
    earliest_dates,             \* file name -> the earliest date of its commits
    na_pos,                     \* lines consumed so far
    current_author_in_iter,
    current_date_in_iter,
    articles,
    current_number_of_items,
    resulting_md,               \* the Markdown text built so far
    na_file                     \* the report file: [written, text]

fetch_vars == <<continuation_token, result_json, current_batch_result_json,
                batch_number, has_more_results, pc, exit_status, json_file,
                requests, responses>>
report_vars == <<most_visited_json, number_of_items, md_pc,
                 page_info_list_without_view_stats, page_info_list, tmp_count,
                 md_pos, md_rows, md_resulting_md, md_file>>
articles_vars == <<txt_lines, exclude_path, na_pc, earliest_dates, na_pos,
                   current_author_in_iter, current_date_in_iter, articles,
                   current_number_of_items, resulting_md, na_file>>
vars == <<fetch_vars, report_vars, articles_vars>>

---------------------------------------------------------------------------
(* Bounds of the model.                                                    *)
MaxBatches == 2
MaxBatchLen == 2
MaxItems == 2
MaxTopN == 2
MaxCommits == 2

---------------------------------------------------------------------------
(* Characters and Python's string primitives.                              *)
Q == "\""
NL == "\n"

Min(a, b) == IF a < b THEN a ELSE b
Max(a, b) == IF a > b THEN a ELSE b

\* Python's treatment of a slice bound i on a text of length n.
PyClamp(i, n) ==
    IF i < 0 THEN Max(i + n, 0) ELSE Min(i, n)

\* s[a:b]
PySlice(s, a, b) ==
    LET lo == PyClamp(a, Len(s))
        hi == PyClamp(b, Len(s))
    IN  IF lo >= hi THEN <<>> ELSE SubSeq(s, lo + 1, hi)

\* s[a:]
PySliceFrom(s, a) == PySlice(s, a, Len(s))

\* whether sub occurs in s at 0-based offset i
OccursAt(s, sub, i) ==
    /\ i >= 0
    /\ i + Len(sub) <= Len(s)
    /\ SubSeq(s, i + 1, i + Len(sub)) = sub

\* s.find(sub): the lowest 0-based offset, or -1
PyFind(s, sub) ==
    LET hits == {i \in 0..Len(s) : OccursAt(s, sub, i)}
    IN  IF hits = {} THEN -1 ELSE CHOOSE i \in hits : \A j \in hits : i <= j

\* s.rfind(sub, start, end): the highest offset with start <= i and
\* i + len(sub) <= end, after Python's adjustment of start and end, or -1
PyRfind(s, sub, start, end) ==
    LET lo == PyClamp(start, Len(s))
        hi == PyClamp(end, Len(s))
        hits == {i \in 0..Len(s) : OccursAt(s, sub, i) /\ lo <= i /\ i + Len(sub) <= hi}
    IN  IF hits = {} THEN -1 ELSE CHOOSE i \in hits : \A j \in hits : i >= j

\* s.find(sub, start): the lowest offset at or after start, or -1
PyFindFrom(s, sub, start) ==
    LET hits == {i \in start..Len(s) : OccursAt(s, sub, i)}
    IN  IF hits = {} THEN -1 ELSE CHOOSE i \in hits : \A j \in hits : i <= j

\* s.replace(old, new) for a non-empty old: the occurrences are taken left
\* to right and do not overlap; start is where the scan resumes
RECURSIVE PyReplaceFrom(_, _, _, _)
PyReplaceFrom(s, old, new, start) ==
    LET i == PyFindFrom(s, old, start)
    IN  IF i < 0 THEN SubSeq(s, start + 1, Len(s))
        ELSE SubSeq(s, start + 1, i) \o new \o PyReplaceFrom(s, old, new, i + Len(old))

PyReplace(s, old, new) == PyReplaceFrom(s, old, new, 0)

\* sub in s
PyContains(s, sub) == PyFind(s, sub) >= 0

\* s.startswith(prefix)
PyStartsWith(s, prefix) == OccursAt(s, prefix, 0)

\* str(n) for a natural number
Digit(d) == <<"0", "1", "2", "3", "4", "5", "6", "7", "8", "9">>[d + 1]
RECURSIVE PyStrNat(_)
PyStrNat(n) ==
    IF n < 10 THEN <<Digit(n)>> ELSE PyStrNat(n \div 10) \o <<Digit(n % 10)>>

\* the printable ASCII characters, from code point 32 on (the grave accent,
\* code point 96, is left as a gap)
Ascii ==
    <<" ", "!", Q, "#", "$", "%", "&", "'", "(", ")", "*", "+", ",", "-", ".", "/",
      "0", "1", "2", "3", "4", "5", "6", "7", "8", "9", ":", ";", "<", "=", ">", "?",
      "@", "A", "B", "C", "D", "E", "F", "G", "H", "I", "J", "K", "L", "M", "N", "O",
      "P", "Q", "R", "S", "T", "U", "V", "W", "X", "Y", "Z", "[", "\\", "]", "^", "_",
      "", "a", "b", "c", "d", "e", "f", "g", "h", "i", "j", "k", "l", "m", "n", "o",
      "p", "q", "r", "s", "t", "u", "v", "w", "x", "y", "z", "{", "|", "}", "~">>

\* ord(c)
Ord(c) == 31 + (CHOOSE i \in 1..Len(Ascii) : Ascii[i] = c)

\* a < b on two strings: by the first position where they differ, a proper
\* prefix being the smaller
PyStrLess(a, b) ==
    LET n == Min(Len(a), Len(b))
        diff == {i \in 1..n : a[i] # b[i]}
        d == CHOOSE i \in diff : \A j \in diff : i <= j
    IN  IF diff = {} THEN Len(a) < Len(b) ELSE Ord(a[d]) < Ord(b[d])

RECURSIVE Concat(_)
Concat(ss) == IF ss = <<>> THEN <<>> ELSE Head(ss) \o Concat(Tail(ss))

RECURSIVE Join(_, _)
Join(ss, sep) ==
    IF ss = <<>> THEN <<>>
    ELSE IF Len(ss) = 1 THEN ss[1]
    ELSE ss[1] \o sep \o Join(Tail(ss), sep)

---------------------------------------------------------------------------
(* json.load, as far as the claims need it: whether a text is one JSON     *)
(* array, and the texts of its elements.  Positions are 1-based; 0 is      *)
(* failure.                                                                *)
JsonWs == {" ", NL, "\t", "\r"}
JsonDigits == {"0", "1", "2", "3", "4", "5", "6", "7", "8", "9"}

RECURSIVE SkipWs(_, _)
SkipWs(s, i) ==
    IF i <= Len(s) /\ s[i] \in JsonWs THEN SkipWs(s, i + 1) ELSE i

RECURSIVE SkipDigits(_, _)
SkipDigits(s, i) ==
    IF i <= Len(s) /\ s[i] \in JsonDigits THEN SkipDigits(s, i + 1) ELSE i

\* i is at the opening quote; the position after the closing quote
JsonString(s, i) ==
    LET closing == {j \in (i + 1)..Len(s) : s[j] = Q}
        first == CHOOSE j \in closing : \A k \in closing : j <= k
    IN  IF i > Len(s) THEN 0
        ELSE IF s[i] # Q \/ closing = {} THEN 0
        ELSE IF \E j \in (i + 1)..(first - 1) : s[j] \in {"\\", NL} THEN 0
        ELSE first + 1

JsonNumber(s, i) ==
    LET d == IF i <= Len(s) /\ s[i] = "-" THEN i + 1 ELSE i
        e == SkipDigits(s, d)
    IN  IF e = d THEN 0 ELSE e

JsonLiteral(s, i) ==
    IF OccursAt(s, <<"t", "r", "u", "e">>, i - 1) THEN i + 4
    ELSE IF OccursAt(s, <<"n", "u", "l", "l">>, i - 1) THEN i + 4
    ELSE IF OccursAt(s, <<"f", "a", "l", "s", "e">>, i - 1) THEN i + 5
    ELSE 0

RECURSIVE JsonValue(_, _)
RECURSIVE JsonMembers(_, _)
RECURSIVE JsonItems(_, _, _)

\* a value starting at or after i0: the position after it
JsonValue(s, i0) ==
    LET i == SkipWs(s, i0)
    IN  IF i > Len(s) THEN 0
        ELSE IF s[i] = "{" THEN
            LET m == SkipWs(s, i + 1)
            IN  IF m <= Len(s) /\ s[m] = "}" THEN m + 1 ELSE JsonMembers(s, m)
        ELSE IF s[i] = "[" THEN
            LET m == SkipWs(s, i + 1)
            IN  IF m <= Len(s) /\ s[m] = "]" THEN m + 1
                ELSE JsonItems(s, m, <<>>).end
        ELSE IF s[i] = Q THEN JsonString(s, i)
        ELSE IF s[i] \in JsonDigits \cup {"-"} THEN JsonNumber(s, i)
        ELSE JsonLiteral(s, i)

\* i is at the key of a member; the position after the object's "}"
JsonMembers(s, i) ==
    LET k == JsonString(s, i)
        c == SkipWs(s, k)
    IN  IF k = 0 \/ c > Len(s) THEN 0
        ELSE IF s[c] # ":" THEN 0
        ELSE LET v == JsonValue(s, c + 1)
                 e == SkipWs(s, v)
             IN  IF v = 0 \/ e > Len(s) THEN 0
                 ELSE IF s[e] = "}" THEN e + 1
                 ELSE IF s[e] = "," THEN JsonMembers(s, SkipWs(s, e + 1))
                 ELSE 0

\* i is at the first character of an item; the position after the array's
\* "]" and the texts of the items
JsonItems(s, i, acc) ==
    LET v == JsonValue(s, i)
        e == SkipWs(s, v)
    IN  IF v = 0 \/ e > Len(s) THEN [end |-> 0, items |-> <<>>]
        ELSE LET got == Append(acc, SubSeq(s, i, v - 1))
             IN  IF s[e] = "]" THEN [end |-> e + 1, items |-> got]
                 ELSE IF s[e] = "," THEN JsonItems(s, SkipWs(s, e + 1), got)
                 ELSE [end |-> 0, items |-> <<>>]

\* json.loads(text) for a text that should hold one array
JsonLoadsArray(text) ==
    LET i == SkipWs(text, 1)
        m == SkipWs(text, i + 1)
        r == IF i > Len(text) \/ m > Len(text) THEN [end |-> 0, items |-> <<>>]
             ELSE IF text[i] # "[" THEN [end |-> 0, items |-> <<>>]
             ELSE IF text[m] = "]" THEN [end |-> m + 1, items |-> <<>>]
             ELSE JsonItems(text, m, <<>>)
    IN  IF r.end # 0 /\ SkipWs(text, r.end) = Len(text) + 1
        THEN [ok |-> TRUE, items |-> r.items]
        ELSE [ok |-> FALSE, items |-> <<>>]

---------------------------------------------------------------------------
(* The wiki API as the pagination loop sees it.                            *)
(*                                                                         *)
(* The server holds a catalog of pages Page(1), Page(2), ... and answers   *)
(* each POST with the next 0..MaxBatchLen of them, wrapped in an object    *)
(* whose "value" member is the array.  It may also answer 401, answer 500, *)
(* or send a body without a "value" member; the transport may raise.       *)

\* the path of catalog page i: even pages have a two-letter name
PagePath(i) == IF i % 2 = 0 THEN <<"/", "A", "B">> ELSE <<"/", "A">>

\* {"id":<i>,"path":"<path>"}
Page(i) ==
    <<"{", Q, "i", "d", Q, ":">> \o PyStrNat(i)
    \o <<",", Q, "p", "a", "t", "h", Q, ":", Q>> \o PagePath(i) \o <<Q, "}">>

\* the catalog pages first..first+n-1, as element texts
Pages(first, n) == [k \in 1..n |-> Page(first + k - 1)]

\* [<e1>,<e2>,...]
ArrayText(elems) == <<"[">> \o Join(elems, <<",">>) \o <<"]">>

\* {"count":<n>,"value":[...]}
CountedBody(elems) ==
    <<"{", Q, "c", "o", "u", "n", "t", Q, ":">> \o PyStrNat(Len(elems))
    \o <<",", Q, "v", "a", "l", "u", "e", Q, ":">> \o ArrayText(elems) \o <<"}">>

\* {"value":[...]}
BareBody(elems) ==
    <<"{", Q, "v", "a", "l", "u", "e", Q, ":">> \o ArrayText(elems) \o <<"}">>

\* {"count":0}
NoValueBody == <<"{", Q, "c", "o", "u", "n", "t", Q, ":", "0", "}">>

\* {"message":"err"}
ErrorBody ==
    <<"{", Q, "m", "e", "s", "s", "a", "g", "e", Q, ":", Q, "e", "r", "r", Q, "}">>

\* values of the X-MS-ContinuationToken header
Tokens == {<<"2">>, <<"3">>}

\* the number of catalog pages delivered by the answers so far
RECURSIVE Delivered(_)
Delivered(rs) ==
    IF rs = <<>> THEN 0 ELSE Len(rs[Len(rs)].pages) + Delivered(SubSeq(rs, 1, Len(rs) - 1))

\* A response: status_code, whether the continuation header is present and
\* its value, the body text, and (for the record) the pages the body carries.
Resp(status, has_token, token, text, pages) ==
    [status_code |-> status, has_token |-> has_token, token |-> token,
     text |-> text, pages |-> pages]

\* the 200 answers that carry the next n pages
DataResponses(has_token, n) ==
    LET elems == Pages(Delivered(responses) + 1, n)
        toks  == IF has_token THEN Tokens ELSE {<<>>}
    IN  {Resp(200, has_token, t, CountedBody(elems), elems) : t \in toks}
        \cup {Resp(200, has_token, t, BareBody(elems), elems) : t \in toks}

\* every answer the server can give now
ServerResponses ==
    UNION {DataResponses(h, n) : h \in BOOLEAN, n \in 0..MaxBatchLen}
    \cup {Resp(200, TRUE, t, NoValueBody, <<>>) : t \in Tokens}
    \cup {Resp(500, FALSE, <<>>, ErrorBody, <<>>),
          Resp(401, FALSE, <<>>, ErrorBody, <<>>)}

---------------------------------------------------------------------------
(* create_most_visited_json                                                *)

NotWritten == [written |-> FALSE, text |-> <<>>]
Written(text) == [written |-> TRUE, text |-> text]

\* the module-level initial value of continuation_token: the integer 1
FirstToken == [type |-> "int", text |-> <<"1">>]

\* HeaderToken not taking the header's value: the first call's token again
HeaderTokenIgnored(t) == [type |-> "int", text |-> <<"1">>]

\* line 183: continuation_token after an answer with the header value t
HeaderToken(t) == [type |-> "str", text |-> t]

str_to_find == <<Q, "v", "a", "l", "u", "e", Q, ":">>
Separator == <<NL, NL, ",", NL, NL>>
RfindWindow == 50

\* StatusBranch with the wrong status code in the comparison
StatusBranchWrongCode(status) == IF status # 403 THEN "data" ELSE "auth"

\* the branch taken on a status code: "data" (the body is paged data) or
\* "auth" (exit).  The trailing else of the code, "API Error", follows
\* `if != 401 ... elif == 401` and so is taken for no status.
StatusBranch(status) == IF status # 401 THEN "data" ELSE "auth"

\* the text after the marker "value": and before the body's last character
ExtractValue(text) ==
    LET index_value == PyFind(text, str_to_find)
    IN  PySlice(text, index_value + Len(str_to_find), -1)

\* the fragment of one batch, ready to be appended to result_json
StitchFragment(fragment, batch_no) ==
    IF batch_no = 1
    THEN PySlice(fragment, 0, Len(fragment) - 1) \o Separator
    ELSE PySlice(fragment, 1, -1) \o Separator

\* the text written to the cache file once the loop has ended
CloseArray(result) ==
    LET index_of_last_comma ==
            PyRfind(result, <<",">>, Len(result) - RfindWindow, Len(result))
    IN  PySlice(result, 0, index_of_last_comma) \o <<"]">>

FetchInit ==
    /\ continuation_token = FirstToken
    /\ result_json = <<>>
    /\ current_batch_result_json = <<>>
    /\ batch_number = 0
    /\ has_more_results = FALSE
    /\ pc = "loop"
    /\ exit_status = 0
    /\ json_file = NotWritten
    /\ requests = <<>>
    /\ responses = <<>>

\* a non-401 answer with the X-MS-ContinuationToken header: one batch is
\* stitched and the loop goes round
ResponseWithToken ==
    /\ pc = "loop"
    /\ batch_number < MaxBatches
    /\ \E r \in ServerResponses :
        /\ StatusBranch(r.status_code) = "data"
        /\ r.has_token
        /\ requests' = Append(requests, continuation_token)
        /\ responses' = Append(responses, r)
        /\ has_more_results' = TRUE
        /\ batch_number' = batch_number + 1
        /\ continuation_token' = HeaderToken(r.token)
        /\ current_batch_result_json' =
               StitchFragment(ExtractValue(r.text), batch_number + 1)
        /\ result_json' = result_json \o current_batch_result_json'
    /\ UNCHANGED <<pc, exit_status, json_file>>
    /\ UNCHANGED <<report_vars, articles_vars>>

\* a non-401 answer without the header: the loop breaks, the buffer is
\* closed and written to the cache file
ResponseWithoutToken ==
    /\ pc = "loop"
    /\ \E r \in ServerResponses :
        /\ StatusBranch(r.status_code) = "data"
        /\ ~r.has_token
        /\ requests' = Append(requests, continuation_token)
        /\ responses' = Append(responses, r)
    /\ has_more_results' = FALSE
    /\ json_file' = Written(CloseArray(result_json))
    /\ pc' = "returned"
    /\ UNCHANGED <<continuation_token, result_json, current_batch_result_json,
                   batch_number, exit_status>>
    /\ UNCHANGED <<report_vars, articles_vars>>

\* a 401 answer: exit(1) raises SystemExit, which `except Exception` does
\* not catch
AuthenticationError ==
    /\ pc = "loop"
    /\ \E r \in ServerResponses :
        /\ StatusBranch(r.status_code) = "auth"
        /\ requests' = Append(requests, continuation_token)
        /\ responses' = Append(responses, r)
    /\ pc' = "exited"
    /\ exit_status' = 1
    /\ UNCHANGED <<continuation_token, result_json, current_batch_result_json,
                   batch_number, has_more_results, json_file>>
    /\ UNCHANGED <<report_vars, articles_vars>>

\* requests.post raises: the handler evaluates "Error: " + e, a str plus an
\* exception, which raises TypeError out of the handler and ends the process
TransportException ==
    /\ pc = "loop"
    /\ requests' = Append(requests, continuation_token)
    /\ pc' = "crashed"
    /\ exit_status' = 1
    /\ UNCHANGED <<continuation_token, result_json, current_batch_result_json,
                   batch_number, has_more_results, json_file, responses>>
    /\ UNCHANGED <<report_vars, articles_vars>>

FetchNext ==
    \/ ResponseWithToken
    \/ ResponseWithoutToken
    \/ AuthenticationError
    \/ TransportException

---------------------------------------------------------------------------
(* create_most_visited_md                                                  *)

\* An item of the cache file.  has_view_stats is `"viewStats" in item`;
\* viewStats is the sequence of the per-day counts.
Item(id, path, has_view_stats, viewStats) ==
    [id |-> id, path |-> path, has_view_stats |-> has_view_stats,
     viewStats |-> viewStats]

\* the items the model draws the cache file from
ItemCatalog ==
    { Item(1, <<"/", "M", "y", "-", "P", "a", "g", "e", " ", "T", "i", "t", "l", "e">>, TRUE, <<10>>),
      Item(2, <<"/", "A", "|", "B">>, TRUE, <<20>>),
      Item(3, <<"/", "S", "e", "t", "u", "p", " ", "G", "u", "i", "d", "e">>, TRUE, <<3, 5>>),
      Item(4, <<"/", "C", "*", "D", ":", "E">>, TRUE, <<10>>),
      Item(5, <<"/", "F">>, TRUE, <<>>),
      Item(6, <<"/", "G">>, FALSE, <<>>),
      Item(7, <<"M", "y", "-", "P", "a", "g", "e", " ", "T", "i", "t", "l", "e">>, TRUE, <<1>>) }

\* every sequence over S of length at most n
RECURSIVE SeqsUpTo(_, _)
SeqsUpTo(S, n) ==
    IF n = 0 THEN {<<>>}
    ELSE LET shorter == SeqsUpTo(S, n - 1)
         IN  shorter \cup {Append(q, x) : q \in {r \in shorter : Len(r) = n - 1}, x \in S}

\* str(item['viewStats']) == '[]': the list is empty
ViewStatsIsEmpty(item) == item.viewStats = <<>>

\* lines 365-374: the items that have a non-empty viewStats
RECURSIVE FilterViewStats(_)
FilterViewStats(items) ==
    IF items = <<>> THEN <<>>
    ELSE LET item == Head(items)
             rest == FilterViewStats(Tail(items))
         IN  IF item.has_view_stats /\ ~ViewStatsIsEmpty(item)
             THEN <<[id |-> item.id, path |-> item.path, viewStats |-> item.viewStats]>> \o rest
             ELSE rest

\* SumCounts assigning each count instead of accumulating it
SumCountsOverwriting(view_stats) ==
    IF view_stats = <<>> THEN 0 ELSE view_stats[Len(view_stats)]

\* lines 381-384: tmp_count accumulated over the viewStats of one row
RECURSIVE SumCounts(_)
SumCounts(view_stats) ==
    IF view_stats = <<>> THEN 0 ELSE Head(view_stats) + SumCounts(Tail(view_stats))

\* lines 376-386
SumViewStats(items) ==
    [k \in 1..Len(items) |->
        [id |-> items[k].id, path |-> items[k].path,
         viewCountTotal |-> SumCounts(items[k].viewStats)]]

_sortByViewCountTotal(e) == e.viewCountTotal

\* InsertDescending putting x before the items of equal key, as an
\* ascending sort followed by a reversal does
InsertDescendingTiesReversed(sorted, x) ==
    LET before == {i \in 1..Len(sorted) : sorted[i].viewCountTotal > x.viewCountTotal}
        n == Cardinality(before)
    IN  SubSeq(sorted, 1, n) \o <<x>> \o SubSeq(sorted, n + 1, Len(sorted))

\* where list.sort(reverse=True, key=...) puts x among the already sorted
\* items: after every item whose key is at least x's (the sort is stable)
InsertDescending(sorted, x) ==
    LET before == {i \in 1..Len(sorted) :
                      _sortByViewCountTotal(sorted[i]) >= _sortByViewCountTotal(x)}
        n == Cardinality(before)
    IN  SubSeq(sorted, 1, n) \o <<x>> \o SubSeq(sorted, n + 1, Len(sorted))

\* page_info_list.sort(reverse=True, key=_sortByViewCountTotal)
RECURSIVE SortByViewCountTotal(_)
SortByViewCountTotal(items) ==
    IF items = <<>> THEN <<>>
    ELSE InsertDescending(SortByViewCountTotal(SubSeq(items, 1, Len(items) - 1)),
                          items[Len(items)])

\* lines 403-421: tmp_path, the target of the row's link before ".md"
EscapePath(path) ==
    LET p0 == PySlice(path, 1, Len(path))
        p1 == PyReplace(p0, <<"-">>, <<"%", "2", "D">>)
        p2 == PyReplace(p1, <<" ">>, <<"-">>)
        p3 == PyReplace(p2, <<"|">>, <<"%", "7", "C">>)
        p4 == IF PyContains(p3, <<"*">>) THEN PyReplace(p3, <<"*">>, <<"%", "2", "A">>) ELSE p3
        p5 == IF PyContains(p4, <<"|">>) THEN PyReplace(p4, <<"|">>, <<"%", "7", "C">>) ELSE p4
        p6 == IF PyContains(p5, <<":">>) THEN PyReplace(p5, <<":">>, <<"%", "3", "A">>) ELSE p5
    IN  p6

\* lines 409-413: tmp_path_link_name, the text of the row's link
LinkName(path) ==
    PyReplace(PySlice(path, 1, Len(path)), <<"|">>, <<"%", "7", "C">>)

\* datetime.now(timezone.utc).strftime("%c"): some timestamp
StrNow ==
    <<"T", "h", "u", " ", "J", "a", "n", " ", " ", "1", " ", "0", "0", ":", "0", "0", ":", "0", "0", " ", "1", "9", "7", "0">>

\* lines 394-397: the title line and the table's header
ReportHead(n) ==
    <<"M", "o", "s", "t", " ", "v", "i", "s", "i", "t", "e", "d", " ">> \o PyStrNat(n)
    \o <<" ", "p", "a", "g", "e", "s", " ", "i", "n", " ", "l", "a", "s", "t", " ", "3", "0", " ", "d", "a", "y", "s", " ", "a", "s", " ", "o", "f", " ", "<", "b", ">">>
    \o StrNow \o <<" ", "U", "T", "C", " ", "<", "/", "b", ">", " ", NL, NL>>
    \o <<" ", "|", " ", "<", "b", ">", "P", "a", "t", "h", "<", "/", "b", ">", " ", "|", " ", "<", "b", ">", "P", "a", "g", "e", " ", "V", "i", "s", "i", "t", "s", "<", "/", "b", ">", " ", "|", " ", "<", "b", ">", "A", "r", "t", "i", "c", "l", "e", " ", "S", "u", "m", "m", "a", "r", "y", "<", "/", "b", ">", " ", "|", NL>>
    \o <<" ", "|", " ", "-", "-", "-", "-", " ", "|", " ", "-", "-", "-", "-", "-", "-", " ", "|", " ", "-", "-", "-", "-", "-", "-", " ", "|", NL>>

\* lines 423-427: the text of one data row
RowText(row) ==
    <<" ", "|", " ", "[">> \o row.link_name \o <<"]", "(">> \o row.link \o <<")", " ", "|", " ">>
    \o PyStrNat(row.visits) \o <<" ", "|", " ">> \o row.summary \o <<" ", "|", NL>>

\* What return_summary can do on a row: return one line, return a text with
\* a line break in it, or raise (the article's file cannot be opened, the
\* completion call fails).
SummaryOutcomes ==
    { [raises |-> FALSE, text |-> <<"A", " ", "s", "u", "m", "m", "a", "r", "y", ".">>],
      [raises |-> FALSE, text |-> <<"L", "i", "n", "e", " ", "o", "n", "e", ".", NL, "L", "i", "n", "e", " ", "t", "w", "o", ".">>],
      [raises |-> TRUE, text |-> <<>>] }

\* TakesRow off by one
TakesRowStrict(count, n) == count < n

\* line 400: whether the loop still renders a row
TakesRow(count, n) == count <= n

ReportInit ==
    /\ most_visited_json \in SeqsUpTo(ItemCatalog, MaxItems)
    /\ number_of_items \in 0..MaxTopN
    /\ md_pc = "start"
    /\ page_info_list_without_view_stats = <<>>
    /\ page_info_list = <<>>
    /\ tmp_count = 0
    /\ md_pos = 0
    /\ md_rows = <<>>
    /\ md_resulting_md = <<>>
    /\ md_file = NotWritten

\* lines 362-374
LoadAndFilter ==
    /\ md_pc = "start"
    /\ page_info_list_without_view_stats' = FilterViewStats(most_visited_json)
    /\ md_pc' = "filtered"
    /\ UNCHANGED <<most_visited_json, number_of_items, page_info_list, tmp_count,
                   md_pos, md_rows, md_resulting_md, md_file>>
    /\ UNCHANGED <<fetch_vars, articles_vars>>

\* lines 376-386
SumViewCounts ==
    /\ md_pc = "filtered"
    /\ page_info_list' = SumViewStats(page_info_list_without_view_stats)
    /\ md_pc' = "summed"
    /\ UNCHANGED <<most_visited_json, number_of_items,
                   page_info_list_without_view_stats, tmp_count, md_pos, md_rows,
                   md_resulting_md, md_file>>
    /\ UNCHANGED <<fetch_vars, articles_vars>>

\* lines 388-398: the sort, the head of the report, tmp_count = 1
SortPages ==
    /\ md_pc = "summed"
    /\ page_info_list' = SortByViewCountTotal(page_info_list)
    /\ md_resulting_md' = ReportHead(number_of_items)
    /\ tmp_count' = 1
    /\ md_pc' = "rendering"
    /\ UNCHANGED <<most_visited_json, number_of_items,
                   page_info_list_without_view_stats, md_pos, md_rows, md_file>>
    /\ UNCHANGED <<fetch_vars, articles_vars>>

\* lines 399-427: one pass of the loop over page_info_list.  While
\* tmp_count <= number_of_items the item gets a row, which calls
\* return_summary; an exception it raises is caught nowhere.
RenderItem ==
    /\ md_pc = "rendering"
    /\ md_pos < Len(page_info_list)
    /\ LET item == page_info_list[md_pos + 1]
       IN  IF TakesRow(tmp_count, number_of_items)
           THEN \E outcome \in SummaryOutcomes :
                   IF outcome.raises
                   THEN /\ md_pc' = "failed"
                        /\ tmp_count' = tmp_count + 1
                        /\ UNCHANGED <<md_pos, md_rows, md_resulting_md>>
                   ELSE LET row == [path |-> item.path,
                                    link_name |-> LinkName(item.path),
                                    link |-> EscapePath(item.path) \o <<".", "m", "d">>,
                                    visits |-> item.viewCountTotal,
                                    summary |-> outcome.text]
                        IN  /\ md_rows' = Append(md_rows, row)
                            /\ md_resulting_md' = md_resulting_md \o RowText(row)
                            /\ tmp_count' = tmp_count + 1
                            /\ md_pos' = md_pos + 1
                            /\ md_pc' = "rendering"
           ELSE /\ md_pos' = md_pos + 1
                /\ UNCHANGED <<md_pc, tmp_count, md_rows, md_resulting_md>>
    /\ UNCHANGED <<most_visited_json, number_of_items,
                   page_info_list_without_view_stats, page_info_list, md_file>>
    /\ UNCHANGED <<fetch_vars, articles_vars>>

\* lines 429-430
WriteReport ==
    /\ md_pc = "rendering"
    /\ md_pos = Len(page_info_list)
    /\ md_file' = Written(md_resulting_md)
    /\ md_pc' = "written"
    /\ UNCHANGED <<most_visited_json, number_of_items,
                   page_info_list_without_view_stats, page_info_list, tmp_count,
                   md_pos, md_rows, md_resulting_md>>
    /\ UNCHANGED <<fetch_vars, articles_vars>>

ReportNext ==
    \/ LoadAndFilter
    \/ SumViewCounts
    \/ SortPages
    \/ RenderItem
    \/ WriteReport

---------------------------------------------------------------------------
(* create_new_articles_md                                                  *)

ItemAuthorMark == <<"#", "I", "t", "e", "m", "A", "u", "t", "h", "o", "r", "#">>
ItemDateMark == <<"#", "I", "t", "e", "m", "D", "a", "t", "e", "#">>

number_of_days_for_new_articles_md == 30
max_number_of_items_in_md_for_last_updated_pages == 2000

\* the name main gives the report, and the full path it passes for it:
\* os.getcwd() is /w and code_wiki_name is W
ArticlesReportName ==
    <<"A", "r", "t", "i", "c", "l", "e", "s", "-", "c", "r", "e", "a", "t", "e", "d", "-", "i", "n", "-", "t", "h", "e", "-", "p", "a", "s", "t", "-">>
    \o PyStrNat(number_of_days_for_new_articles_md) \o <<"-", "d", "a", "y", "s", ".", "m", "d">>
new_articles_md_full_path == <<"/", "w", "/", "W", "/", "W", "/">> \o ArticlesReportName

\* the files added by the commits the model draws the git log from
FileLists ==
    { << <<"F", "o", "o", " ", "B", "a", "r", ".", "m", "d">> >>,
      << <<"F", "o", "o", "-", "B", "a", "r", ".", "m", "d">> >>,
      << <<"A", "%", "2", "D", "B", ".", "m", "d">> >>,
      << <<"A", "-", "B", ".", "m", "d">> >>,
      << <<"a", "|", "b", ".", "m", "d">> >>,
      << <<"a", "|", "|", "b", ".", "m", "d">> >>,
      << ArticlesReportName >>,
      << <<"A", "-", "B", ".", "m", "d">>, <<"F", "o", "o", " ", "B", "a", "r", ".", "m", "d">> >> }

\* %an and %cd of the k-th commit of the log (git lists the newest first)
CommitAuthor(k) == IF k % 2 = 1 THEN <<"A", "n", "n">> ELSE <<"B", "o", "b">>
CommitDate(k) ==
    <<"0", "1", "/">> \o PyStrNat(30 - k) \o <<"/", "2", "4", " ", "1", "0", ":", "0", "0", ":", "0", "0">>

\* where git puts the name x among the already sorted names of a commit:
\* before the first name that is greater
InsertPath(sorted, x) ==
    LET before == {i \in 1..Len(sorted) : ~PyStrLess(x, sorted[i])}
        n == Cardinality(before)
    IN  SubSeq(sorted, 1, n) \o <<x>> \o SubSeq(sorted, n + 1, Len(sorted))

\* --name-only: the names of the files of one commit, sorted by path
RECURSIVE SortPaths(_)
SortPaths(files) ==
    IF files = <<>> THEN <<>>
    ELSE InsertPath(SortPaths(SubSeq(files, 1, Len(files) - 1)), files[Len(files)])

\* The lines of git's output for the commits whose files are given: per
\* commit the author line, the date line and the file names sorted by path,
\* and an empty line between two commits.
RECURSIVE LogLines(_, _)
LogLines(file_lists, k) ==
    IF k > Len(file_lists) THEN <<>>
    ELSE <<ItemAuthorMark \o CommitAuthor(k), ItemDateMark \o CommitDate(k)>>
         \o SortPaths(file_lists[k])
         \o (IF k < Len(file_lists) THEN << <<>> >> ELSE <<>>)
         \o LogLines(file_lists, k + 1)

\* line 261: new_articles_commits.strip().split('\n\n'), on the lines of the
\* text: the runs of lines between two empty lines
RECURSIVE CommitLogs(_, _)
CommitLogs(lines, cur) ==
    IF lines = <<>> THEN <<cur>>
    ELSE IF Head(lines) = <<>> THEN <<cur>> \o CommitLogs(Tail(lines), <<>>)
    ELSE CommitLogs(Tail(lines), Append(cur, Head(lines)))

\* [line for line in lines if line.startswith(mark)][0][len(mark):]
FirstMarked(lines, mark) ==
    LET hits == {i \in 1..Len(lines) : PyStartsWith(lines[i], mark)}
        first == CHOOSE i \in hits : \A j \in hits : i <= j
    IN  PySliceFrom(lines[first], Len(mark))

\* lines 264-287: the dictionary earliest_dates after the logs k..; the key
\* of a log is its last line
RECURSIVE EarliestDates(_, _, _)
EarliestDates(logs, k, acc) ==
    IF k > Len(logs) THEN acc
    ELSE LET lines == logs[k]
             filename == lines[Len(lines)]
             date == FirstMarked(lines, ItemDateMark)
             keep == filename \in DOMAIN acc /\ ~PyStrLess(date, acc[filename])
         IN  IF lines = <<>> \/ keep THEN EarliestDates(logs, k + 1, acc)
             ELSE EarliestDates(logs, k + 1,
                      [f \in DOMAIN acc \cup {filename} |->
                          IF f = filename THEN date ELSE acc[f]])

\* MarkedValue leaving the mark in the value
MarkedValueKept(line, mark) == line

\* lines 306-309: the value of an author or date line, its mark taken out
MarkedValue(line, mark) == PyReplace(line, mark, <<>>)

\* lines 290-293: the title line and the table's header
ArticlesHead ==
    <<"L", "a", "s", "t", " ">> \o PyStrNat(number_of_days_for_new_articles_md)
    \o <<" ", "p", "a", "g", "e", "s", " ", "a", "d", "d", "e", "d", " ", "t", "o", " ", "w", "i", "k", "i", ",", " ", "a", "s", " ", "o", "f", " ", "<", "b", ">", " ">>
    \o StrNow \o <<" ", "U", "T", "C", " ", ":", " ", "<", "/", "b", ">", " ", NL, NL>>
    \o <<" ", "|", " ", "<", "b", ">", "P", "a", "g", "e", "<", "/", "b", ">", " ", "|", " ", "<", "b", ">", "A", "u", "t", "h", "o", "r", "<", "/", "b", ">", " ", "|", " ", "<", "b", ">", "D", "a", "t", "e", "<", "/", "b", ">", " ", "|", " ", NL>>
    \o <<" ", "|", " ", "-", "-", "-", "-", " ", "|", " ", "-", "-", "-", "-", "-", "-", " ", "|", " ", "-", "-", "-", "-", " ", "|", " ", NL>>

\* line 314: current_page_in_iteration_to_use_in_md
LinkPath(page) == PyReplace(page, <<" ">>, <<"-">>)

\* lines 318-319: current_page_in_iteration_to_use_in_md_for_link
LinkText(link) ==
    PyReplace(PyReplace(PyReplace(link, <<"-">>, <<" ">>),
                        <<"%", "2", "D">>, <<"-">>),
              <<"%", "3", "A">>, <<":">>)

\* lines 315-317: the three conditions of the outer if
PassesOuterIf(page, md, exclude) ==
    /\ page # <<>>
    /\ PyFind(md, <<"[">> \o LinkPath(page) \o <<"]">>) < 0
    /\ PyFind(page, exclude) < 0

\* line 322: the page is not in articles yet
NotInArticles(link, seen) == \A i \in 1..Len(seen) : seen[i] # link

\* lines 325-328: the text of one row
ArticleRowText(link, author, date) ==
    <<"|", " ", "[">> \o LinkText(link) \o <<"]", "(">> \o link \o <<")", " ", "|">>
    \o author \o <<"|">> \o date \o <<NL>>

\* line 335
CollapseBars(md) == PyReplace(md, <<"|", "|">>, <<"|">>)

ArticlesInit ==
    /\ \E file_lists \in SeqsUpTo(FileLists, MaxCommits) :
          txt_lines = LogLines(file_lists, 1)
    /\ exclude_path = new_articles_md_full_path
    /\ na_pc = "scanning"
    /\ earliest_dates = <<>>
    /\ na_pos = 0
    /\ current_author_in_iter = <<>>
    /\ current_date_in_iter = <<>>
    /\ articles = <<>>
    /\ current_number_of_items = 0
    /\ resulting_md = <<>>
    /\ na_file = NotWritten

\* lines 257-302: the first pass over the commit logs, which fills
\* earliest_dates, and the head of the report
ScanEarliestDates ==
    /\ na_pc = "scanning"
    /\ earliest_dates' = EarliestDates(CommitLogs(txt_lines, <<>>), 1, <<>>)
    /\ resulting_md' = ArticlesHead
    /\ na_pc' = "reading"
    /\ UNCHANGED <<txt_lines, exclude_path, na_pos, current_author_in_iter,
                   current_date_in_iter, articles, current_number_of_items, na_file>>
    /\ UNCHANGED <<fetch_vars, report_vars>>

\* lines 306-307
ReadAuthorLine ==
    /\ na_pc = "reading"
    /\ na_pos < Len(txt_lines)
    /\ PyStartsWith(txt_lines[na_pos + 1], ItemAuthorMark)
    /\ current_author_in_iter' = MarkedValue(txt_lines[na_pos + 1], ItemAuthorMark)
    /\ na_pos' = na_pos + 1
    /\ UNCHANGED <<txt_lines, exclude_path, na_pc, earliest_dates,
                   current_date_in_iter, articles, current_number_of_items,
                   resulting_md, na_file>>
    /\ UNCHANGED <<fetch_vars, report_vars>>

\* lines 308-309
ReadDateLine ==
    /\ na_pc = "reading"
    /\ na_pos < Len(txt_lines)
    /\ ~PyStartsWith(txt_lines[na_pos + 1], ItemAuthorMark)
    /\ PyStartsWith(txt_lines[na_pos + 1], ItemDateMark)
    /\ current_date_in_iter' = MarkedValue(txt_lines[na_pos + 1], ItemDateMark)
    /\ na_pos' = na_pos + 1
    /\ UNCHANGED <<txt_lines, exclude_path, na_pc, earliest_dates,
                   current_author_in_iter, articles, current_number_of_items,
                   resulting_md, na_file>>
    /\ UNCHANGED <<fetch_vars, report_vars>>

\* lines 310-333: any other line is a file name (or the empty line between
\* two commits)
ReadFilenameLine ==
    /\ na_pc = "reading"
    /\ na_pos < Len(txt_lines)
    /\ ~PyStartsWith(txt_lines[na_pos + 1], ItemAuthorMark)
    /\ ~PyStartsWith(txt_lines[na_pos + 1], ItemDateMark)
    /\ LET current_page_in_iteration == txt_lines[na_pos + 1]
           link == LinkPath(current_page_in_iteration)
           emit == /\ PassesOuterIf(current_page_in_iteration, resulting_md, exclude_path)
                   /\ NotInArticles(link, articles)
       IN  IF emit
           THEN /\ articles' = Append(articles, link)
                /\ resulting_md' = resulting_md \o
                       ArticleRowText(link, current_author_in_iter, current_date_in_iter)
                /\ current_number_of_items' = current_number_of_items + 1
                /\ na_pc' = IF current_number_of_items + 1 =
                                   max_number_of_items_in_md_for_last_updated_pages
                            THEN "closing" ELSE "reading"
           ELSE UNCHANGED <<articles, resulting_md, current_number_of_items, na_pc>>
    /\ na_pos' = na_pos + 1
    /\ UNCHANGED <<txt_lines, exclude_path, earliest_dates, current_author_in_iter,
                   current_date_in_iter, na_file>>
    /\ UNCHANGED <<fetch_vars, report_vars>>

\* lines 335-338: after the last line, or after the break
WriteArticlesReport ==
    /\ IF na_pc = "reading" THEN na_pos = Len(txt_lines) ELSE na_pc = "closing"
    /\ resulting_md' = CollapseBars(resulting_md)
    /\ na_file' = Written(resulting_md')
    /\ na_pc' = "written"
    /\ UNCHANGED <<txt_lines, exclude_path, earliest_dates, na_pos,
                   current_author_in_iter, current_date_in_iter, articles,
                   current_number_of_items>>
    /\ UNCHANGED <<fetch_vars, report_vars>>

ArticlesNext ==
    \/ ScanEarliestDates
    \/ ReadAuthorLine
    \/ ReadDateLine
    \/ ReadFilenameLine
    \/ WriteArticlesReport

---------------------------------------------------------------------------
(* The specifications.  Each runs one pipeline; the variables of the other *)
(* two stay at rest.                                                       *)

FetchIdle ==
    /\ continuation_token = FirstToken
    /\ result_json = <<>>
    /\ current_batch_result_json = <<>>
    /\ batch_number = 0
    /\ has_more_results = FALSE
    /\ pc = "idle"
    /\ exit_status = 0
    /\ json_file = NotWritten
    /\ requests = <<>>
    /\ responses = <<>>

ReportIdle ==
    /\ most_visited_json = <<>>
    /\ number_of_items = 0
    /\ md_pc = "idle"
    /\ page_info_list_without_view_stats = <<>>
    /\ page_info_list = <<>>
    /\ tmp_count = 0
    /\ md_pos = 0
    /\ md_rows = <<>>
    /\ md_resulting_md = <<>>
    /\ md_file = NotWritten

ArticlesIdle ==
    /\ txt_lines = <<>>
    /\ exclude_path = <<>>
    /\ na_pc = "idle"
    /\ earliest_dates = <<>>
    /\ na_pos = 0
    /\ current_author_in_iter = <<>>
    /\ current_date_in_iter = <<>>
    /\ articles = <<>>
    /\ current_number_of_items = 0
    /\ resulting_md = <<>>
    /\ na_file = NotWritten

Init == FetchInit /\ ReportIdle /\ ArticlesIdle
Next == FetchNext
Spec == Init /\ [][Next]_vars

InitReport == FetchIdle /\ ReportInit /\ ArticlesIdle
NextReport == ReportNext
SpecReport == InitReport /\ [][NextReport]_vars

InitArticles == FetchIdle /\ ReportIdle /\ ArticlesInit
NextArticles == ArticlesNext
SpecArticles == InitArticles /\ [][NextArticles]_vars

---------------------------------------------------------------------------
(* Vocabulary of the properties.                                           *)

Last(q) == q[Len(q)]

\* an answer came in with this step
Answered == Len(responses') = Len(responses) + 1

\* every answer so far is a 200 whose body carries its pages under "value"
AllAnswersArePages ==
    \A i \in 1..Len(responses) :
        /\ responses[i].status_code = 200
        /\ responses[i].text \in {CountedBody(responses[i].pages), BareBody(responses[i].pages)}

\* a status that is neither 2xx nor 401
IsOtherErrorStatus(status) == status \notin 200..299 /\ status # 401

\* the answer's body lacks the marker "value":
LacksMarker(r) == \A i \in 0..Len(r.text) : ~OccursAt(r.text, str_to_find, i)

\* the sum of a sequence of numbers, taken from its end
RECURSIVE TotalOf(_)
TotalOf(q) == IF Len(q) = 0 THEN 0 ELSE TotalOf(SubSeq(q, 1, Len(q) - 1)) + Last(q)

\* the positions of the items of the cache file that have view statistics
KeptPositions ==
    {i \in 1..Len(most_visited_json) :
        most_visited_json[i].has_view_stats /\ Len(most_visited_json[i].viewStats) > 0}

\* the k-th of them
KeptPosition(k) ==
    CHOOSE i \in KeptPositions : Cardinality({j \in KeptPositions : j <= i}) = k

\* out is a of sorted by viewCountTotal, highest first, equal totals in
\* the order they have in a
IsStableDescendingSortOf(out, a) ==
    /\ Len(out) = Len(a)
    /\ \E f \in [1..Len(a) -> 1..Len(a)] :
        /\ \A i, j \in 1..Len(a) : i # j => f[i] # f[j]
        /\ \A i \in 1..Len(a) : out[i] = a[f[i]]
        /\ \A i, j \in 1..Len(a) :
              i < j => \/ out[i].viewCountTotal > out[j].viewCountTotal
                       \/ out[i].viewCountTotal = out[j].viewCountTotal /\ f[i] < f[j]

\* the escape of one character of a path
EscapedChar(c) ==
    IF c = "-" THEN <<"%", "2", "D">>
    ELSE IF c = " " THEN <<"-">>
    ELSE IF c = "|" THEN <<"%", "7", "C">>
    ELSE IF c = "*" THEN <<"%", "2", "A">>
    ELSE IF c = ":" THEN <<"%", "3", "A">>
    ELSE <<c>>

\* a text with each of its characters escaped
EscapedText(t) == Concat([i \in 1..Len(t) |-> EscapedChar(t[i])])

\* a path without its leading separator, if it has one
WithoutLeadingSeparator(path) ==
    IF Len(path) > 0 /\ path[1] = "/" THEN SubSeq(path, 2, Len(path)) ELSE path

DotMd == <<".", "m", "d">>
MyPageTitle == <<"M", "y", "-", "P", "a", "g", "e", " ", "T", "i", "t", "l", "e">>
MyPageTitleLink == <<"M", "y", "%", "2", "D", "P", "a", "g", "e", "-", "T", "i", "t", "l", "e">>

\* the lines of a text: each as the pair of its first and last position
LineSpans(text) ==
    LET breaks == {i \in 1..Len(text) : text[i] = NL}
        starts == {1} \cup {i + 1 : i \in breaks}
    IN  {<<p, (CHOOSE e \in breaks \cup {Len(text) + 1} :
                  e >= p /\ \A x \in breaks : x >= p => e <= x) - 1>> :
            p \in {q \in starts : q <= Len(text)}}

\* the data rows of the new-articles report, as texts keyed by position
ArticleRowsOf(text) ==
    {sp \in LineSpans(text) : OccursAt(text, <<"|", " ", "[">>, sp[1] - 1)}

\* the link path of a row: the text inside the parentheses of its link
RowLinkPath(text, sp) ==
    LET line == SubSeq(text, sp[1], sp[2])
        open == PyFind(line, <<"]", "(">>)
        close == PyFindFrom(line, <<")">>, open + 2)
    IN  SubSeq(line, open + 3, close)

\* line i of the log is neither an author line nor a date line
IsFilenameLine(i) ==
    /\ ~PyStartsWith(txt_lines[i], ItemAuthorMark)
    /\ ~PyStartsWith(txt_lines[i], ItemDateMark)

\* the first line of the log whose link variant is link
FirstLineWithLink(link) ==
    CHOOSE i \in 1..Len(txt_lines) :
        /\ IsFilenameLine(i) /\ LinkPath(txt_lines[i]) = link
        /\ \A j \in 1..(i - 1) : ~(IsFilenameLine(j) /\ LinkPath(txt_lines[j]) = link)

\* what follows the mark on the latest line before line i that starts with
\* it; empty if there is none
LatestMarkedBefore(i, mark) ==
    LET hits == {j \in 1..(i - 1) : OccursAt(txt_lines[j], mark, 0)}
        latest == CHOOSE j \in hits : \A k \in hits : j >= k
    IN  IF hits = {} THEN <<>>
        ELSE SubSeq(txt_lines[latest], Len(mark) + 1, Len(txt_lines[latest]))

\* the answers that carried the continuation header are 200s whose body
\* carries their pages under "value"
HeaderBearingArePages ==
    \A i \in 1..Len(responses) :
        responses[i].has_token =>
            /\ responses[i].status_code = 200
            /\ responses[i].text \in {CountedBody(responses[i].pages), BareBody(responses[i].pages)}

\* the elements of the batches that carried the header, batch after batch
RECURSIVE HeaderBearingElements(_)
HeaderBearingElements(rs) ==
    IF rs = <<>> THEN <<>>
    ELSE HeaderBearingElements(SubSeq(rs, 1, Len(rs) - 1))
         \o (IF Last(rs).has_token THEN Last(rs).pages ELSE <<>>)

\* the positions of the answers that carried the continuation header
HeaderBearing == {i \in 1..Len(responses) : responses[i].has_token}

---------------------------------------------------------------------------
(* The claims.                                                             *)

\* C1: for every sequence of batch responses, the last one being the one
\* without the continuation header, the text written to the cache file is
\* valid JSON and parses into as many elements as all the batches hold.
C1_StitchedJsonHoldsEveryBatch ==
    (pc = "returned" /\ AllAnswersArePages) =>
        /\ json_file.written
        /\ JsonLoadsArray(json_file.text).ok
        /\ Len(JsonLoadsArray(json_file.text).items) = Delivered(responses)

\* C2: when the first request is answered by {"value":[{"id":1,"path":"/A"}]}
\* without a continuation header, the cache file holds [{"id":1,"path":"/A"}].
C2_SingleBatchIsWritten ==
    (/\ pc = "returned"
     /\ responses = <<Resp(200, FALSE, <<>>, BareBody(<<Page(1)>>), <<Page(1)>>)>>) =>
        json_file = Written(ArrayText(<<Page(1)>>))

\* C3: a 401 answer ends the fetch at once: the process exits with a
\* non-zero status, the buffer is left as it was, the cache file is not
\* written, and nothing happens afterwards (no retry, no further request).
C3_UnauthorizedIsFatal ==
    [][/\ (Answered /\ Last(responses').status_code = 401) =>
            /\ pc' = "exited"
            /\ exit_status' # 0
            /\ result_json' = result_json
            /\ batch_number' = batch_number
            /\ json_file' = NotWritten
       /\ pc = "exited" => UNCHANGED vars]_vars

\* C3 witness: the 401 came after a batch had been stitched
C3_Witness ==
    /\ pc = "exited"
    /\ exit_status = 1
    /\ batch_number >= 1
    /\ Len(result_json) > 0
    /\ Last(responses).status_code = 401
    /\ Len(requests) = Len(responses)

\* C4: an answer with a non-2xx status other than 401 ends the fetch with
\* an API error: the process exits non-zero, and the answer is neither
\* stitched nor taken for the final page.
C4_OtherErrorStatusIsFatal ==
    (\E i \in 1..Len(responses) : IsOtherErrorStatus(responses[i].status_code)) =>
        /\ pc = "exited"
        /\ exit_status # 0
        /\ ~json_file.written

\* C5: a header-bearing answer whose body lacks the marker "value": aborts
\* the fetch; nothing of it reaches the buffer and no cache file is written.
C5_MissingMarkerAborts ==
    (\E i \in 1..Len(responses) :
        /\ responses[i].has_token
        /\ responses[i].status_code # 401
        /\ LacksMarker(responses[i])) =>
        /\ pc \in {"exited", "crashed"}
        /\ ~json_file.written

\* C6: the two aggregation loops return one page for each item whose
\* viewStats is present and non-empty and none for the others, and each
\* page's viewCountTotal is the sum of the counts of its item's viewStats.
C6_AggregateKeepsAndSums ==
    md_pc = "summed" =>
        /\ Len(page_info_list) = Cardinality(KeptPositions)
        /\ \A k \in 1..Len(page_info_list) :
            LET item == most_visited_json[KeptPosition(k)]
            IN  /\ page_info_list[k].id = item.id
                /\ page_info_list[k].path = item.path
                /\ page_info_list[k].viewCountTotal = TotalOf(item.viewStats)

\* C6 witness: one item is dropped and one with two days of counts is kept
C6_Witness ==
    /\ md_pc = "summed"
    /\ Len(most_visited_json) >= 2
    /\ \E i \in 1..Len(most_visited_json) : i \notin KeptPositions
    /\ \E k \in 1..Len(page_info_list) :
        /\ Len(most_visited_json[KeptPosition(k)].viewStats) = 2
        /\ page_info_list[k].viewCountTotal = 8

\* C7: the rows are ordered by viewCountTotal, highest first, and the sort
\* is stable: pages of equal viewCountTotal keep the order they had in the
\* aggregated sequence.
C7_SortIsDescendingAndStable ==
    [][/\ (md_pc = "summed" /\ md_pc' = "rendering") =>
            IsStableDescendingSortOf(page_info_list', page_info_list)
       /\ \A i, j \in 1..Len(md_rows') :
            i < j => md_rows'[i].visits >= md_rows'[j].visits]_vars

\* C7 witness: a report with two rows of equal visits, for two different
\* pages, in the order the two pages have in the cache file
C7_Witness ==
    /\ md_pc = "written"
    /\ Len(md_rows) = 2
    /\ md_rows[1].visits = md_rows[2].visits
    /\ md_rows[1].path # md_rows[2].path
    /\ most_visited_json[1].path = md_rows[1].path
    /\ most_visited_json[2].path = md_rows[2].path

\* C8: the report has min(topN, number of aggregated pages) data rows, the
\* first topN pages of the sorted sequence in sorted order; with topN = 1
\* and two pages of counts 10 and 20 the only row is the 20-count page.
C8_ReportTakesFirstTopN ==
    md_pc = "written" =>
        /\ md_file = Written(ReportHead(number_of_items)
                               \o Concat([k \in 1..Len(md_rows) |-> RowText(md_rows[k])]))
        /\ Len(md_rows) = Min(number_of_items, Len(page_info_list))
        /\ \A k \in 1..Len(md_rows) :
            /\ md_rows[k].path = page_info_list[k].path
            /\ md_rows[k].visits = page_info_list[k].viewCountTotal
        /\ (/\ number_of_items = 1
            /\ Len(most_visited_json) = 2
            /\ most_visited_json[1].viewStats = <<10>>
            /\ most_visited_json[2].viewStats = <<20>>) =>
                /\ Len(md_rows) = 1
                /\ md_rows[1].visits = 20
                /\ md_rows[1].path = most_visited_json[2].path

\* C8 witness: the scenario of the claim, its report written
C8_Witness ==
    /\ md_pc = "written"
    /\ number_of_items = 1
    /\ Len(most_visited_json) = 2
    /\ most_visited_json[1].viewStats = <<10>>
    /\ most_visited_json[2].viewStats = <<20>>
    /\ Len(md_rows) = 1

\* C9: the link path of a row is the page path without its leading
\* separator, when it has one, with '-', ' ', '|', '*' and ':' escaped in
\* this order; "My-Page Title" yields My%2DPage-Title.
C9_LinkPathStripsSeparatorIfPresent ==
    \A k \in 1..Len(md_rows) :
        /\ md_rows[k].link = EscapedText(WithoutLeadingSeparator(md_rows[k].path)) \o DotMd
        /\ md_rows[k].path = MyPageTitle => md_rows[k].link = MyPageTitleLink \o DotMd

\* C10: the new-articles report never has two data rows with the same link
\* path.
C10_NoTwoRowsShareALinkPath ==
    na_pc = "written" =>
        \A r1, r2 \in ArticleRowsOf(na_file.text) :
            r1 # r2 => RowLinkPath(na_file.text, r1) # RowLinkPath(na_file.text, r2)

\* C11: the rows of the new-articles report stand in the order in which
\* their file paths first occur in the log, and each row carries the author
\* and the date of the latest #ItemAuthor# and #ItemDate# lines before that
\* first occurrence (whatever earliest_dates holds for the file).
C11_RowsInFirstEncounterOrder ==
    na_pc = "written" =>
        LET at == [k \in 1..Len(articles) |-> FirstLineWithLink(articles[k])]
        IN  /\ \A k, l \in 1..Len(articles) : k < l => at[k] < at[l]
            /\ na_file.text = CollapseBars(ArticlesHead \o Concat(
                   [k \in 1..Len(articles) |->
                       ArticleRowText(articles[k],
                                      LatestMarkedBefore(at[k], ItemAuthorMark),
                                      LatestMarkedBefore(at[k], ItemDateMark))]))

\* C11 witness: a report of two rows, the first with the later date, whose
\* first file has an earlier date in earliest_dates than the one in its row
C11_Witness ==
    /\ na_pc = "written"
    /\ Len(articles) = 2
    /\ LET d1 == LatestMarkedBefore(FirstLineWithLink(articles[1]), ItemDateMark)
           d2 == LatestMarkedBefore(FirstLineWithLink(articles[2]), ItemDateMark)
           f1 == txt_lines[FirstLineWithLink(articles[1])]
       IN  /\ PyStrLess(d2, d1)
           /\ f1 \in DOMAIN earliest_dates
           /\ PyStrLess(earliest_dates[f1], d1)
           /\ PyContains(na_file.text, <<"|">> \o d1 \o <<NL>>)
           /\ ~PyContains(na_file.text, <<"|">> \o earliest_dates[f1] \o <<NL, "|", " ", "[">>)

\* C12: a failure of the summarizer on one row stays with that row: every
\* pass of the loop that renders a row, whatever return_summary does, adds
\* a row and leaves the loop running, and the report is written with a row
\* for each of the first topN pages.
C12_SummarizerFailureIsIsolated ==
    [][/\ (/\ md_pc = "rendering"
           /\ md_pos < Len(page_info_list)
           /\ TakesRow(tmp_count, number_of_items)) =>
               /\ md_pc' = "rendering"
               /\ Len(md_rows') = Len(md_rows) + 1
       /\ (md_pc = "rendering" /\ md_pos = Len(page_info_list)) =>
               md_file'.written]_vars

\* C13: every data row of the most-visited report is one line: its text has
\* one line break, the one that ends it, so none inside the summary.
C13_EveryRowIsOneLine ==
    \A k \in 1..Len(md_rows) :
        LET text == RowText(md_rows[k])
        IN  {i \in 1..Len(text) : text[i] = NL} = {Len(text)}

\* C14: in every run with at least one header-bearing answer, the text
\* written is a valid JSON array whose elements are the elements of the
\* header-bearing batches, in batch order and then element order, whatever
\* the sizes of the batches (zero included); the final answer adds none.
C14_WrittenTextIsTheHeaderBearingBatches ==
    (/\ pc = "returned"
     /\ \E i \in 1..Len(responses) : responses[i].has_token
     /\ HeaderBearingArePages) =>
        /\ json_file.written
        /\ JsonLoadsArray(json_file.text).ok
        /\ JsonLoadsArray(json_file.text).items = HeaderBearingElements(responses)

\* C15: the requests go out one after another: the first carries the
\* integer 1, every later one the value of the continuation header of the
\* answer just before it; batch_number is the number of header-bearing
\* answers received; and the first answer without the header is the last
\* event of the loop: it is answered by no further request.
C15_RequestsFollowTheTokens ==
    /\ Len(requests) \in {Len(responses), Len(responses) + 1}
    /\ Len(requests) >= 1 => requests[1] = [type |-> "int", text |-> <<"1">>]
    /\ \A k \in 2..Len(requests) :
          /\ responses[k - 1].has_token
          /\ requests[k] = [type |-> "str", text |-> responses[k - 1].token]
    /\ batch_number = Cardinality(HeaderBearing)
    /\ \A i \in 1..Len(responses) :
          ~responses[i].has_token =>
              /\ i = Len(responses)
              /\ Len(requests) = Len(responses)
              /\ pc # "loop"

\* C15 witness: a finished run of three requests, the second and the third
\* carrying two different header values
C15_Witness ==
    /\ pc = "returned"
    /\ Len(requests) = 3
    /\ batch_number = 2
    /\ requests[2].text = responses[1].token
    /\ requests[3].text = responses[2].token
    /\ requests[2] # requests[3]
    /\ ~responses[3].has_token

\* C16: when requests.post raises, the error is ignored and the loop goes
\* round again: the process does not end, and the token, batch_number and
\* the buffer are as before, so that the same request is sent again.
C16_TransportErrorIsRetried ==
    [][(Len(requests') = Len(requests) + 1 /\ Len(responses') = Len(responses)) =>
            /\ pc' = "loop"
            /\ exit_status' = 0
            /\ continuation_token' = continuation_token
            /\ batch_number' = batch_number
            /\ result_json' = result_json]_vars

\* C17: below the cap of rows, a file name line is skipped if and only if
\* it is empty, or it contains excludePath, or its link variant is the link
\* path of an earlier row; nothing else of the earlier rows (display text,
\* author, date) makes a line be skipped.
C17_SkippedIffEmptyExcludedOrEmitted ==
    [][(/\ na_pc = "reading"
        /\ na_pos' = na_pos + 1
        /\ IsFilenameLine(na_pos + 1)
        /\ current_number_of_items < max_number_of_items_in_md_for_last_updated_pages) =>
            LET page == txt_lines[na_pos + 1]
            IN  (resulting_md' = resulting_md) <=>
                    \/ page = <<>>
                    \/ PyContains(page, exclude_path)
                    \/ \E k \in 1..Len(articles) : articles[k] = LinkPath(page)]_vars

\* C18: the new-articles report has no row for the report file itself: a
\* file name line that names it, as git prints it, matches the excludePath
\* main passes and is skipped.
C18_ReportFileHasNoRow ==
    /\ \A k \in 1..Len(articles) : articles[k] # ArticlesReportName
    /\ na_pc = "written" =>
          \A r \in ArticleRowsOf(na_file.text) :
              RowLinkPath(na_file.text, r) # ArticlesReportName

===========================================================================
